---------------------------- MODULE Spec2Model ----------------------------
(***************************************************************************)
(* The sheepdog backing store of tgt (usr/bs_sheepdog.c): the volume       *)
(* session (sd_open, sd_sync, sd_io), the object RPCs it issues and the    *)
(* stale-inode reload, as a state machine.  One session, one worker        *)
(* thread; the server and the transport are the environment.               *)
(***************************************************************************)
EXTENDS Integers, Sequences, FiniteSets, TLC

(***************************************************************************)
(* Bounds of the model.                                                    *)
(***************************************************************************)
\* slots of inode.data_vdi_id[] the model keeps (the source keeps 2^20)
NSlots == 4
\* operations (open, io, sync) of one behaviour
MaxOps == 2
\* responses of one behaviour that are not the nominal SUCCESS
MaxFaults == 2
\* a nonzero value an uninitialized rlen may hold
GarbageLen == 16
\* payload bytes of the request or the response followed byte by byte
WireLen == 4
\* EINTR/EAGAIN failures within one do_req call
MaxIntr == 1

Slots == 0 .. (NSlots - 1)
\* the volume ids the server hands out
Vids == {1, 2}

(***************************************************************************)
(* Program constants.                                                      *)
(***************************************************************************)
SD_OP_CREATE_AND_WRITE_OBJ == 1
SD_OP_READ_OBJ == 2
SD_OP_WRITE_OBJ == 3
SD_OP_LOCK_VDI == 18
SD_OP_FLUSH_VDI == 22
SD_OP_RELEASE_VDI == 19
SD_FLAG_CMD_WRITE == 1
SD_FLAG_CMD_COW == 2
SD_RES_SUCCESS == 0
SD_RES_EIO == 3
SD_RES_INVALID_PARMS == 5
SD_RES_READONLY == 26
SD_RES_VDI_NOT_LOCKED == 16
SD_MAX_VDI_LEN == 256
SD_MAX_VDI_TAG_LEN == 256
SD_DATA_OBJ_SIZE == 4194304
\* sizeof(struct sheepdog_inode): 256 + 256 + 5*8 + 2 + 1 + 1 + 3*4 + 1024*4 + 2^20*4
SD_INODE_SIZE == 4198968
\* Stands for 4294967295, which TLC's integers do not hold; the code only
\* compares it with slot indices (below 2^20), for which the order is the same.
UINT32_MAX == 2147483647

(***************************************************************************)
(* Object ids.  A 64-bit oid is kept as its three bit fields: the type     *)
(* nibble (bits 60..63), the vdi space (bits 32..59) and the low word      *)
(* (bits 0..31); the shifts and ors of the source pack exactly these.      *)
(***************************************************************************)
\* VDI_BIT is bit 63: 8 in the type nibble
VDI_BIT_NIBBLE == 8

Oid0 == [type |-> 0, vid |-> 0, lo |-> 0]

vid_to_vdi_oid(vid) == [type |-> VDI_BIT_NIBBLE, vid |-> vid, lo |-> 0]

vid_to_data_oid(vid, idx) == [type |-> 0, vid |-> vid, lo |-> idx]

is_data_obj_writeable(ino, idx) == ino.vdi_id = ino.data_vdi_id[idx]

Min(a, b) == IF a < b THEN a ELSE b

MaxTakesFirst(a, b) == a

Max(a, b) == IF a > b THEN a ELSE b

\* a flags word as the source ors and tests it
HasFlag(f, b) == (f \div b) % 2 = 1

OrFlag(f, b) == IF HasFlag(f, b) THEN f ELSE f + b

(***************************************************************************)
(* State.                                                                  *)
(***************************************************************************)
VARIABLES
    pc,                  \* "closed", "idle", "exit", or the position inside sd_io
    fd,                  \* ai->fd: "none", "open" or "closed"
    inode,               \* ai->inode: [vdi_id, data_vdi_id]
    min_dirty_data_idx,  \* ai->min_dirty_data_idx
    max_dirty_data_idx,  \* ai->max_dirty_data_idx
    l,                   \* the locals of the running sd_io
    buf,                 \* the [lo, hi) ranges of the read buffer memset to zero
    log,                 \* the wire events of the running (or last) operation
    op,                  \* the running (or last) operation and what it returned
    srv_inode,           \* the inode image the server holds for this session
    ops,                 \* operations left
    faults,              \* non-nominal responses left
    hist,                \* history of the session, for the relational claims
    lock_fd,             \* the socket of the last find_vdi_name: "none", "closed"
    cmds,                \* the SCSI opcodes the initiator issues in this session
    w                    \* one do_req call followed system call by system call

vars == <<pc, fd, inode, min_dirty_data_idx, max_dirty_data_idx, l, buf, log,
          op, srv_inode, ops, faults, hist, lock_fd, cmds, w>>

(***************************************************************************)
(* bs_sheepdog_request: the call the opcode cmd->scb[0] selects and the    *)
(* result, sense key and additional sense code the command ends with.      *)
(***************************************************************************)
SyncCmds == {"SYNCHRONIZE_CACHE", "SYNCHRONIZE_CACHE_16"}

WriteCmds == {"WRITE_6", "WRITE_10", "WRITE_12", "WRITE_16"}

ReadCmds == {"READ_6", "READ_10", "READ_12", "READ_16"}

\* opcodes the switch has no case for
OtherCmds == {"TEST_UNIT_READY", "INQUIRY"}

ScsiCmds == SyncCmds \cup WriteCmds \cup ReadCmds \cup OtherCmds

\* lines 830-860: the call made for opcode scb0
bs_sheepdog_request_call(scb0) ==
    IF scb0 \in SyncCmds THEN "sync"
    ELSE IF scb0 \in WriteCmds THEN "write"
    ELSE IF scb0 \in ReadCmds THEN "read"
    ELSE "none"

\* lines 812-817
set_medium_error ==
    [result |-> "SAM_STAT_CHECK_CONDITION", key |-> "MEDIUM_ERROR",
     asc |-> "ASC_READ_ERROR"]

\* lines 823-825: result, key and asc before the switch
ScsiGood == [result |-> "SAM_STAT_GOOD", key |-> "0", asc |-> "0"]

bs_sheepdog_request_status_always_good(ret) ==
    [result |-> ScsiGood.result, key |-> ScsiGood.key, asc |-> ScsiGood.asc,
     sense |-> FALSE]

\* lines 834-835, 844-845, 854-855, 864-870: the status of the command when
\* the call returned ret, and whether sense data was built
bs_sheepdog_request_status(ret) ==
    LET st == IF ret # 0 THEN set_medium_error ELSE ScsiGood
    IN  [result |-> st.result, key |-> st.key, asc |-> st.asc,
         sense |-> st.result # "SAM_STAT_GOOD"]

\* the status of a command that has not returned
NoStatus == [result |-> "none", key |-> "0", asc |-> "0", sense |-> FALSE]

\* the indirection tables the server holds when the volume is opened: every
\* slot unallocated, every slot owned by one volume, and the mixed ones
OpenTables ==
    {[s \in Slots |-> c] : c \in {0} \cup Vids}
    \cup {[s \in Slots |-> (s + k) % 3] : k \in 0 .. 2}

\* at: where sd_io returned from ("piece", "reload" or "end")
\* scb0: the opcode of the command; status: what bs_sheepdog_request set
NoOp == [name |-> "none", ret |-> 0, write |-> FALSE, len |-> 0, offset |-> 0,
         at |-> "none", scb0 |-> "none", status |-> NoStatus]

Inode0 == [vdi_id |-> 0, data_vdi_id |-> [s \in Slots |-> 0]]

NoLocals == [write |-> FALSE, len |-> 0, offset |-> 0, idx |-> 0, max |-> 0,
             obj_offset |-> 0, size |-> 0, rest |-> 0, create |-> 0,
             flags |-> 0, need_update_inode |-> 0]

\* fresh: the slots a successful, reload-free write allocated, with no reload
\* since; ever: the same, reloads or not; the 0 fields: the values when the
\* running sd_io started
NoHist == [fresh |-> {}, ever |-> {}, fresh0 |-> {}, ever0 |-> {},
           min0 |-> 0, max0 |-> 0]


(***************************************************************************)
(* The environment: what the server and the transport answer to one        *)
(* request.  t is where the transport fails ("send": sendmsg, "hdr": the   *)
(* read of the response header, "pay": the read of the payload) or "ok".   *)
(* A response announces the payload the request asked for, or none.        *)
(***************************************************************************)
Rsp(t, result, dl) == [t |-> t, result |-> result, data_length |-> dl]

\* the answer of a healthy server: SUCCESS and the payload asked for
Nominal(dl) == Rsp("ok", SD_RES_SUCCESS, dl)

Faulty(dl, results) ==
    {Rsp("send", SD_RES_SUCCESS, 0), Rsp("hdr", SD_RES_SUCCESS, 0)}
    \cup {Rsp("pay", SD_RES_SUCCESS, d) : d \in {dl} \ {0}}
    \cup {Rsp("ok", r, 0) : r \in results}
    \cup {Rsp("ok", SD_RES_SUCCESS, d) : d \in {0} \ {dl}}

\* the answers left to the environment with `left` faults to spend
Responses(dl, results, left) ==
    IF left > 0 THEN {Nominal(dl)} \cup Faulty(dl, results) ELSE {Nominal(dl)}

Cost(rsp, dl) == IF rsp = Nominal(dl) THEN 0 ELSE 1

\* the result codes, other than SUCCESS, the server answers to an object request
ObjResults == {SD_RES_READONLY, SD_RES_EIO}

\* ... to LOCK_VDI
VdiResults == {SD_RES_EIO}

\* ... to FLUSH_VDI
FlushResults == {SD_RES_INVALID_PARMS, SD_RES_READONLY, SD_RES_EIO}

\* ... to RELEASE_VDI
ReleaseResults == {SD_RES_VDI_NOT_LOCKED, SD_RES_EIO}

\* connect_to_sdog: TRUE when a socket was connected
Connects(left) == IF left > 0 THEN {TRUE, FALSE} ELSE {TRUE}

ConnCost(c) == IF c THEN 0 ELSE 1

(***************************************************************************)
(* do_req: send the request, read the response header, clamp rlen to the   *)
(* announced data_length and read that many payload bytes into data.       *)
(* consumed: every byte of the response was read.                          *)
(***************************************************************************)
do_req(data, wlen, rlen, rsp) ==
    LET r == IF rsp.data_length < rlen THEN rsp.data_length ELSE rlen
    IN  IF rsp.t \in {"send", "hdr"}
        THEN [ret |-> -1, rlen |-> rlen, consumed |-> FALSE]
        ELSE IF r > 0 /\ (rsp.t = "pay" \/ data = "null")
        THEN [ret |-> -1, rlen |-> r, consumed |-> FALSE]
        ELSE [ret |-> 0, rlen |-> r, consumed |-> (r = rsp.data_length)]

NoHdr == [opcode |-> 0, flags |-> 0, oid |-> Oid0, cow_oid |-> Oid0,
          data_length |-> 0, offset |-> 0, vdi_id |-> 0, wlen |-> 0, rlen |-> 0]

\* the request header read_write_object builds
read_write_object_hdr(oid, datalen, offset, write, create, old_oid, flags) ==
    [opcode |-> IF write THEN (IF create # 0 THEN SD_OP_CREATE_AND_WRITE_OBJ
                                               ELSE SD_OP_WRITE_OBJ)
                         ELSE SD_OP_READ_OBJ,
     flags |-> IF write THEN OrFlag(flags, SD_FLAG_CMD_WRITE) ELSE flags,
     oid |-> oid,
     cow_oid |-> IF write /\ create # 0 THEN old_oid ELSE Oid0,
     data_length |-> datalen,
     offset |-> offset,
     vdi_id |-> 0,
     wlen |-> IF write THEN datalen ELSE 0,
     rlen |-> IF write THEN 0 ELSE datalen]

read_write_object_ret_readonly_fails(dr, result, has_reload) ==
    IF dr # 0 THEN [ret |-> -1, need_reload |-> 0]
    ELSE IF result = SD_RES_SUCCESS THEN [ret |-> 0, need_reload |-> 0]
    ELSE [ret |-> -1, need_reload |-> 0]

read_write_object_ret_no_reload(dr, result, has_reload) ==
    IF dr # 0 THEN [ret |-> -1, need_reload |-> 0]
    ELSE IF result = SD_RES_SUCCESS THEN [ret |-> 0, need_reload |-> 0]
    ELSE IF result = SD_RES_READONLY THEN [ret |-> 0, need_reload |-> 0]
    ELSE [ret |-> -1, need_reload |-> 0]

\* what read_write_object returns, and leaves in *need_reload, when do_req
\* returned dr and the response holds result (has_reload: need_reload # NULL)
read_write_object_ret(dr, result, has_reload) ==
    IF dr # 0 THEN [ret |-> -1, need_reload |-> 0]
    ELSE IF result = SD_RES_SUCCESS THEN [ret |-> 0, need_reload |-> 0]
    ELSE IF result = SD_RES_READONLY
    THEN [ret |-> 0, need_reload |-> IF has_reload THEN 1 ELSE 0]
    ELSE [ret |-> -1, need_reload |-> 0]

\* read_write_object on the session socket: the request, then the return
read_write_object(hdr, rsp, has_reload) ==
    read_write_object_ret(do_req("buf", hdr.wlen, hdr.rlen, rsp).ret,
                          rsp.result, has_reload)

\* what an event of the log says beside the request and the response: the
\* slot, the offset in the caller's buffer, the size and the in-object offset
\* of the piece, the owner of the slot and the volume id when the piece was
\* decided (or the volume id LOCK_VDI returned), the inode after an inode read
NoPiece == [idx |-> -1, bufoff |-> 0, size |-> 0, obj_offset |-> 0,
            prior |-> 0, vid |-> 0, img |-> Inode0]

\* a wire event of the log
Ev(kind, sock, hdr, rsp, consumed, piece) ==
    [kind |-> kind, sock |-> sock, hdr |-> hdr, rsp |-> rsp,
     consumed |-> consumed, idx |-> piece.idx, bufoff |-> piece.bufoff,
     size |-> piece.size, obj_offset |-> piece.obj_offset,
     prior |-> piece.prior, vid |-> piece.vid, img |-> piece.img]

\* the request find_vdi_name sends (for_snapshot = 0)
find_vdi_name_hdr(snapid) ==
    [NoHdr EXCEPT !.opcode = SD_OP_LOCK_VDI,
                  !.flags = SD_FLAG_CMD_WRITE,
                  !.data_length = SD_MAX_VDI_LEN + SD_MAX_VDI_TAG_LEN,
                  !.wlen = SD_MAX_VDI_LEN + SD_MAX_VDI_TAG_LEN]

\* find_vdi_name on a connection of its own: ret and the event it leaves
\* (v: the vdi_id the response holds)
find_vdi_name(conn, rsp, v) ==
    LET hdr == find_vdi_name_hdr(0)
        r == do_req("buf", hdr.wlen, hdr.rlen, rsp)
    IN  [ret |-> IF conn /\ r.ret = 0 /\ rsp.result = SD_RES_SUCCESS THEN 0 ELSE -1,
         fd |-> IF conn THEN "closed" ELSE "none",
         evs |-> IF conn
                 THEN <<Ev("lock", "lock", hdr, rsp, r.consumed,
                           [NoPiece EXCEPT !.vid = v])>>
                 ELSE <<>>]

\* what the inode holds after read_object(fd, &ai->inode, ..., SD_INODE_SIZE, 0)
\* when the server's image is srv: nothing arrived, a prefix arrived, or all
InodeAfterRead(cur, srv, rsp) ==
    LET r == do_req("buf", 0, SD_INODE_SIZE, rsp)
    IN  IF rsp.t \in {"send", "hdr"} \/ r.rlen = 0 THEN {cur}
        ELSE IF r.ret # 0 THEN {cur, [cur EXCEPT !.vdi_id = srv.vdi_id]}
        ELSE {srv}

\* the request of read_object(fd, &ai->inode, vid_to_vdi_oid(vid), ...)
inode_read_hdr(vid) ==
    read_write_object_hdr(vid_to_vdi_oid(vid), SD_INODE_SIZE, 0, FALSE, 0, Oid0, 0)

InodeReadEv(vid, rsp, ino) ==
    LET hdr == inode_read_hdr(vid)
    IN  Ev("inode_read", "session", hdr, rsp,
           do_req("buf", hdr.wlen, hdr.rlen, rsp).consumed,
           [NoPiece EXCEPT !.vid = vid, !.img = ino])

\* no do_req call is followed
NoWire == [pc |-> "none"]

(***************************************************************************)
(* Init: the access info before sd_open.                                   *)
(***************************************************************************)
InitAi ==
    /\ pc = "closed"
    /\ fd = "none"
    /\ inode = Inode0
    /\ min_dirty_data_idx = 0
    /\ max_dirty_data_idx = 0
    /\ l = NoLocals
    /\ buf = {}
    /\ log = <<>>
    /\ op = NoOp
    /\ srv_inode = Inode0
    /\ hist = NoHist
    /\ lock_fd = "none"

\* one opcode for each case of the switch in bs_sheepdog_request
Init ==
    /\ InitAi
    /\ ops = MaxOps
    /\ faults = MaxFaults
    /\ cmds = {"SYNCHRONIZE_CACHE", "WRITE_10", "READ_10", "TEST_UNIT_READY"}
    /\ w = NoWire

(***************************************************************************)
(* sd_open                                                                 *)
(***************************************************************************)
sd_open_failed(evs, left) ==
    /\ log' = evs
    /\ faults' = left
    /\ op' = [NoOp EXCEPT !.name = "open", !.ret = -1]
    /\ pc' = "closed"
    /\ UNCHANGED <<fd, inode, min_dirty_data_idx, max_dirty_data_idx, srv_inode>>

sd_open ==
    /\ pc = "closed"
    /\ ops > 0
    /\ ops' = ops - 1
    /\ UNCHANGED <<l, buf, hist, cmds, w>>
    /\ \E c1 \in Connects(faults) :
       \E r1 \in Responses(0, VdiResults, faults - ConnCost(c1)) :
       \E v \in Vids :
         LET f == find_vdi_name(c1, r1, v)
             left1 == faults - ConnCost(c1) - Cost(r1, 0)
         IN  /\ (~c1 => r1 = Nominal(0))
             /\ (f.ret # 0 => v = 1)
             /\ lock_fd' = f.fd
             /\ IF f.ret # 0
                THEN sd_open_failed(f.evs, left1)
                ELSE \E c2 \in Connects(left1) :
                     IF ~c2
                     THEN sd_open_failed(f.evs, left1 - 1)
                     ELSE \E tab \in OpenTables :
                          \E r2 \in Responses(SD_INODE_SIZE, ObjResults, left1) :
                          \E ino \in InodeAfterRead(inode,
                                       [vdi_id |-> v, data_vdi_id |-> tab], r2) :
                            LET rr == read_write_object(inode_read_hdr(v), r2, FALSE)
                            IN  /\ fd' = "open"
                                /\ min_dirty_data_idx' = UINT32_MAX
                                /\ max_dirty_data_idx' = 0
                                /\ inode' = ino
                                /\ srv_inode' = IF rr.ret = 0
                                                THEN [vdi_id |-> v, data_vdi_id |-> tab]
                                                ELSE srv_inode
                                /\ log' = f.evs \o <<InodeReadEv(v, r2, ino)>>
                                /\ faults' = left1 - Cost(r2, SD_INODE_SIZE)
                                /\ op' = [NoOp EXCEPT !.name = "open", !.ret = rr.ret]
                                /\ pc' = IF rr.ret = 0 THEN "idle" ELSE "closed"

(***************************************************************************)
(* sd_io                                                                   *)
(***************************************************************************)
\* the (offset, len) pairs the SCSI layer hands to sd_io: inside the volume
InObjOffsets == {0, SD_DATA_OBJ_SIZE - 1024}

Lens == {2048, 3 * SD_DATA_OBJ_SIZE}

IoInputs ==
    {io \in [offset : {s * SD_DATA_OBJ_SIZE + d : s \in Slots, d \in InObjOffsets},
             len : Lens] :
        io.offset + io.len <= NSlots * SD_DATA_OBJ_SIZE}

\* lines 622-636: the locals at the first pass of the loop head
sd_io_locals(write, len, offset) ==
    LET obj_offset == offset % SD_DATA_OBJ_SIZE
    IN  [write |-> write, len |-> len, offset |-> offset,
         idx |-> offset \div SD_DATA_OBJ_SIZE,
         max |-> (offset + len + (SD_DATA_OBJ_SIZE - 1)) \div SD_DATA_OBJ_SIZE,
         obj_offset |-> obj_offset,
         size |-> Min(SD_DATA_OBJ_SIZE - obj_offset, len),
         rest |-> len, create |-> 0, flags |-> 0, need_update_inode |-> 0]

sd_io_next_keeps_obj_offset(loc) ==
    LET rest == loc.rest - loc.size
    IN  [loc EXCEPT !.rest = rest, !.idx = loc.idx + 1,
                    !.size = Min(SD_DATA_OBJ_SIZE - loc.obj_offset, rest)]

\* lines 697-700 and 633-635: done, the loop increment and the next loop head
sd_io_next(loc) ==
    LET rest == loc.rest - loc.size
    IN  [loc EXCEPT !.rest = rest, !.obj_offset = 0, !.idx = loc.idx + 1,
                    !.size = Min(SD_DATA_OBJ_SIZE - 0, rest)]

sd_io_decide_cow_of_new_oid(ino, idx, create, flags) ==
    LET vid == ino.vdi_id
        cur == ino.data_vdi_id[idx]
        alloc == cur # vid
    IN  [vid |-> vid, prior |-> cur, alloc |-> alloc,
         oid |-> IF alloc THEN vid_to_data_oid(ino.vdi_id, idx)
                          ELSE vid_to_data_oid(cur, idx),
         old_oid |-> IF alloc /\ cur # 0 THEN vid_to_data_oid(ino.vdi_id, idx)
                                         ELSE Oid0,
         create |-> IF alloc THEN 1 ELSE create,
         flags |-> IF alloc /\ cur # 0 THEN SD_FLAG_CMD_COW ELSE flags]

\* lines 638-652: what the write path decides for slot idx from the cached
\* inode; create and flags are the locals as the earlier passes left them
sd_io_decide(ino, idx, create, flags) ==
    LET vid == ino.vdi_id
        cur == ino.data_vdi_id[idx]
        alloc == cur # vid
    IN  [vid |-> vid, prior |-> cur, alloc |-> alloc,
         oid |-> IF alloc THEN vid_to_data_oid(ino.vdi_id, idx)
                          ELSE vid_to_data_oid(cur, idx),
         old_oid |-> IF alloc /\ cur # 0 THEN vid_to_data_oid(cur, idx) ELSE Oid0,
         create |-> IF alloc THEN 1 ELSE create,
         flags |-> IF alloc /\ cur # 0 THEN SD_FLAG_CMD_COW ELSE flags]

sd_io_mark_forgotten(ino, idx, d) == ino

\* line 661: the slot is recorded as owned before the write is issued
sd_io_mark(ino, idx, d) ==
    IF d.alloc THEN [ino EXCEPT !.data_vdi_id[idx] = d.vid] ELSE ino

sd_io_written_forgets_update(loc) == [loc EXCEPT !.create = 0]

\* lines 676-679: after a write that succeeded and asked for no reload
sd_io_written(loc) ==
    [loc EXCEPT !.need_update_inode = IF loc.create # 0 THEN 1
                                      ELSE loc.need_update_inode,
                !.create = 0]

\* line 683: the range of the read buffer the memset of an unallocated slot zeroes
sd_io_memset(loc) == [lo |-> 0, hi |-> loc.size]

sd_io_start ==
    /\ pc = "idle"
    /\ ops > 0
    /\ ops' = ops - 1
    /\ \E scb0 \in cmds, io \in IoInputs :
         LET write == bs_sheepdog_request_call(scb0) = "write"
             loc == sd_io_locals(write, io.len, io.offset)
         IN  /\ bs_sheepdog_request_call(scb0) \in {"write", "read"}
             /\ l' = loc
             /\ pc' = IF loc.idx < loc.max THEN "retry" ELSE "update"
             /\ op' = [NoOp EXCEPT !.name = "io", !.write = write,
                                   !.len = io.len, !.offset = io.offset,
                                   !.scb0 = scb0]
    /\ buf' = {}
    /\ log' = <<>>
    /\ hist' = [hist EXCEPT !.min0 = min_dirty_data_idx,
                            !.max0 = max_dirty_data_idx,
                            !.fresh0 = hist.fresh, !.ever0 = hist.ever]
    /\ UNCHANGED <<fd, inode, min_dirty_data_idx, max_dirty_data_idx, srv_inode,
                   faults, lock_fd, cmds, w>>

\* the return of sd_io: pc, op and the history of the session
sd_io_return(ret, at, thelog, h) ==
    LET allocd == {thelog[i].idx : i \in {j \in DOMAIN thelog :
                       thelog[j].kind = "data" /\ thelog[j].prior # thelog[j].vid}}
        reloaded == \E i \in DOMAIN thelog : thelog[i].kind = "lock"
        gain == IF ret = 0 /\ op.write /\ ~reloaded THEN allocd ELSE {}
    IN  /\ pc' = "idle"
        /\ op' = [op EXCEPT !.ret = ret, !.at = at,
                            !.status = bs_sheepdog_request_status(ret)]
        /\ l' = NoLocals
        /\ hist' = [h EXCEPT !.fresh = h.fresh \cup gain, !.ever = h.ever \cup gain]

\* one pass from the label retry: the write path (lines 638-680, 692-700)
sd_io_write_piece ==
    /\ pc = "retry"
    /\ l.write
    /\ LET d == sd_io_decide(inode, l.idx, l.create, l.flags)
           hdr == read_write_object_hdr(d.oid, l.size, l.obj_offset, TRUE,
                                        d.create, d.old_oid, d.flags)
       IN  /\ inode' = sd_io_mark(inode, l.idx, d)
           /\ min_dirty_data_idx' = IF d.alloc THEN Min(l.idx, min_dirty_data_idx)
                                               ELSE min_dirty_data_idx
           /\ max_dirty_data_idx' = IF d.alloc THEN Max(l.idx, max_dirty_data_idx)
                                               ELSE max_dirty_data_idx
           /\ \E rsp \in Responses(0, ObjResults, faults) :
                LET r == read_write_object(hdr, rsp, TRUE)
                    ev == Ev("data", "session", hdr, rsp,
                             do_req("buf", hdr.wlen, hdr.rlen, rsp).consumed,
                             [NoPiece EXCEPT !.idx = l.idx,
                                             !.bufoff = l.len - l.rest,
                                             !.size = l.size,
                                             !.obj_offset = l.obj_offset,
                                             !.prior = d.prior, !.vid = d.vid])
                    loc == [l EXCEPT !.create = d.create, !.flags = d.flags]
                IN  /\ faults' = faults - Cost(rsp, 0)
                    /\ log' = Append(log, ev)
                    /\ IF r.ret = 0 /\ r.need_reload # 0
                       THEN /\ l' = loc
                            /\ pc' = "reload"
                            /\ UNCHANGED <<op, hist>>
                       ELSE IF r.ret = 0
                       THEN LET nxt == sd_io_next(sd_io_written(loc))
                            IN  /\ l' = nxt
                                /\ pc' = IF nxt.idx < nxt.max THEN "retry" ELSE "update"
                                /\ UNCHANGED <<op, hist>>
                       ELSE sd_io_return(-1, "piece", Append(log, ev), hist)
    /\ UNCHANGED <<fd, buf, srv_inode, ops, lock_fd, cmds, w>>

\* the server's inode image a reload reads back: the image the server holds,
\* with the volume id LOCK_VDI returned and any owner of the slot at hand
ReloadImages(v, idx) ==
    {[vdi_id |-> v, data_vdi_id |-> [srv_inode.data_vdi_id EXCEPT ![idx] = dd]] :
        dd \in {0} \cup Vids}

\* lines 670-674 with reload_inode (lines 484-499), then 676-679 and 692-695
sd_io_reload ==
    /\ pc = "reload"
    /\ \E c \in Connects(faults) :
       \E r1 \in Responses(0, VdiResults, faults - ConnCost(c)) :
       \E v \in Vids :
         LET f == find_vdi_name(c, r1, v)
             left1 == faults - ConnCost(c) - Cost(r1, 0)
         IN  /\ (~c => r1 = Nominal(0))
             /\ (f.ret # 0 => v = 1)
             /\ lock_fd' = f.fd
             /\ IF f.ret # 0
                THEN /\ log' = log \o f.evs
                     /\ faults' = left1
                     /\ sd_io_return(-1, "reload", log \o f.evs,
                                     [hist EXCEPT !.fresh = {}])
                     /\ UNCHANGED <<inode, srv_inode>>
                ELSE \E r2 \in Responses(SD_INODE_SIZE, ObjResults, left1) :
                     \E srv \in ReloadImages(v, l.idx) :
                     \E ino \in InodeAfterRead(inode, srv, r2) :
                       /\ inode' = ino
                       /\ srv_inode' = srv
                       /\ log' = log \o f.evs \o <<InodeReadEv(v, r2, ino)>>
                       /\ faults' = left1 - Cost(r2, SD_INODE_SIZE)
                       /\ pc' = "retry"
                       /\ hist' = [hist EXCEPT !.fresh = {}]
                       /\ UNCHANGED <<l, op>>
    /\ UNCHANGED <<fd, min_dirty_data_idx, max_dirty_data_idx, buf, ops, cmds, w>>

\* one pass of the loop body: the read path (lines 638-640, 681-700)
sd_io_read_piece ==
    /\ pc = "retry"
    /\ ~l.write
    /\ LET cur == inode.data_vdi_id[l.idx]
           oid == vid_to_data_oid(cur, l.idx)
           nxt == sd_io_next(l)
           piece == [NoPiece EXCEPT !.idx = l.idx, !.bufoff = l.len - l.rest,
                                    !.size = l.size, !.obj_offset = l.obj_offset,
                                    !.prior = cur, !.vid = inode.vdi_id]
       IN  IF cur = 0
           THEN /\ buf' = buf \cup {sd_io_memset(l)}
                /\ log' = Append(log, Ev("zero", "none", NoHdr, Nominal(0), TRUE,
                                 [piece EXCEPT !.bufoff = sd_io_memset(l).lo]))
                /\ l' = nxt
                /\ pc' = IF nxt.idx < nxt.max THEN "retry" ELSE "update"
                /\ UNCHANGED <<op, hist, faults>>
           ELSE \E rsp \in Responses(l.size, ObjResults, faults) :
                  LET hdr == read_write_object_hdr(oid, l.size, l.obj_offset,
                                                   FALSE, 0, Oid0, 0)
                      r == read_write_object(hdr, rsp, FALSE)
                      ev == Ev("data", "session", hdr, rsp,
                               do_req("buf", hdr.wlen, hdr.rlen, rsp).consumed,
                               piece)
                  IN  /\ faults' = faults - Cost(rsp, l.size)
                      /\ log' = Append(log, ev)
                      /\ buf' = buf
                      /\ IF r.ret = 0
                         THEN /\ l' = nxt
                              /\ pc' = IF nxt.idx < nxt.max THEN "retry" ELSE "update"
                              /\ UNCHANGED <<op, hist>>
                         ELSE sd_io_return(-1, "piece", Append(log, ev), hist)
    /\ UNCHANGED <<fd, inode, min_dirty_data_idx, max_dirty_data_idx, srv_inode,
                   ops, lock_fd, cmds, w>>

\* the request update_inode sends (lines 606-611)
update_inode_hdr(ino) ==
    read_write_object_hdr(vid_to_vdi_oid(ino.vdi_id), SD_INODE_SIZE, 0,
                          TRUE, 0, Oid0, 0)

\* lines 702-705: the inode writeback and the return
sd_io_update ==
    /\ pc = "update"
    /\ IF l.need_update_inode # 0
       THEN \E rsp \in Responses(0, ObjResults, faults) :
              LET hdr == update_inode_hdr(inode)
                  r == read_write_object(hdr, rsp, FALSE)
                  ev == Ev("inode_write", "session", hdr, rsp,
                           do_req("buf", hdr.wlen, hdr.rlen, rsp).consumed,
                           [NoPiece EXCEPT !.vid = inode.vdi_id])
              IN  /\ faults' = faults - Cost(rsp, 0)
                  /\ log' = Append(log, ev)
                  /\ srv_inode' = IF rsp.t = "ok" /\ rsp.result = SD_RES_SUCCESS
                                  THEN inode ELSE srv_inode
                  /\ sd_io_return(r.ret, "end", Append(log, ev), hist)
       ELSE /\ sd_io_return(0, "end", log, hist)
            /\ UNCHANGED <<faults, log, srv_inode>>
    /\ UNCHANGED <<fd, inode, min_dirty_data_idx, max_dirty_data_idx, buf, ops,
                   lock_fd, cmds, w>>

(***************************************************************************)
(* sd_sync                                                                 *)
(***************************************************************************)
\* the request sd_sync sends (lines 577-581)
sd_sync_hdr(ino) ==
    [NoHdr EXCEPT !.opcode = SD_OP_FLUSH_VDI, !.oid = vid_to_vdi_oid(ino.vdi_id)]

sd_sync_ret_only_success(dr, result) ==
    IF dr # 0 THEN -1
    ELSE IF result = SD_RES_SUCCESS THEN 0 ELSE -1

\* lines 584-600: what sd_sync returns when do_req returned dr and the
\* response holds result
sd_sync_ret(dr, result) ==
    IF dr # 0 THEN -1
    ELSE IF result \in {SD_RES_SUCCESS, SD_RES_INVALID_PARMS} THEN 0 ELSE -1

\* rlen is read uninitialized (line 575): any value the build may leave there
sd_sync ==
    /\ pc = "idle"
    /\ ops > 0
    /\ ops' = ops - 1
    /\ \E scb0 \in cmds :
       \E rsp \in Responses(0, FlushResults, faults), rlen \in {0, GarbageLen} :
         LET hdr == [sd_sync_hdr(inode) EXCEPT !.rlen = rlen]
             r == do_req("null", 0, rlen, rsp)
             ret == sd_sync_ret(r.ret, rsp.result)
         IN  /\ bs_sheepdog_request_call(scb0) = "sync"
             /\ faults' = faults - Cost(rsp, 0)
             /\ log' = <<Ev("flush", "session", hdr, rsp, r.consumed,
                            [NoPiece EXCEPT !.vid = inode.vdi_id])>>
             /\ op' = [NoOp EXCEPT !.name = "sync", !.ret = ret, !.scb0 = scb0,
                                   !.status = bs_sheepdog_request_status(ret)]
    /\ pc' = "idle"
    /\ buf' = {}
    /\ UNCHANGED <<fd, inode, min_dirty_data_idx, max_dirty_data_idx, l,
                   srv_inode, hist, lock_fd, cmds, w>>

(***************************************************************************)
(* sd_close                                                                *)
(***************************************************************************)
\* lines 798-801
sd_close_hdr(ino) ==
    [NoHdr EXCEPT !.opcode = SD_OP_RELEASE_VDI, !.vdi_id = ino.vdi_id]

sd_close_fd_kept_on_failure(dr, result) ==
    IF dr = 0 /\ result \in {SD_RES_SUCCESS, SD_RES_VDI_NOT_LOCKED}
    THEN "closed" ELSE "open"

\* lines 803-809: the session socket after sd_close, when do_req returned dr
\* and the response holds result
sd_close_fd(dr, result) == "closed"

\* rlen is read uninitialized (line 795): any value the build may leave there
sd_close ==
    /\ pc = "idle"
    /\ ops > 0
    /\ ops' = ops - 1
    /\ \E rsp \in Responses(0, ReleaseResults, faults), rlen \in {0, GarbageLen} :
         LET hdr == [sd_close_hdr(inode) EXCEPT !.rlen = rlen]
             r == do_req("null", 0, rlen, rsp)
         IN  /\ faults' = faults - Cost(rsp, 0)
             /\ log' = <<Ev("release", "session", hdr, rsp, r.consumed,
                            [NoPiece EXCEPT !.vid = inode.vdi_id])>>
             /\ fd' = sd_close_fd(r.ret, rsp.result)
    /\ op' = [NoOp EXCEPT !.name = "close"]
    /\ pc' = "exit"
    /\ buf' = {}
    /\ UNCHANGED <<inode, min_dirty_data_idx, max_dirty_data_idx, l, srv_inode,
                   hist, lock_fd, cmds, w>>

\* bs_sheepdog_request for an opcode the switch has no case for (lines
\* 857-859): no call is made
bs_sheepdog_request_default ==
    /\ pc = "idle"
    /\ ops > 0
    /\ ops' = ops - 1
    /\ \E scb0 \in cmds :
         /\ bs_sheepdog_request_call(scb0) = "none"
         /\ op' = [NoOp EXCEPT !.name = "default", !.scb0 = scb0,
                               !.status = bs_sheepdog_request_status(0)]
    /\ log' = <<>>
    /\ buf' = {}
    /\ UNCHANGED <<pc, fd, inode, min_dirty_data_idx, max_dirty_data_idx, l,
                   srv_inode, faults, hist, lock_fd, cmds, w>>

Next ==
    \/ sd_open
    \/ sd_io_start
    \/ sd_io_write_piece
    \/ sd_io_read_piece
    \/ sd_io_reload
    \/ sd_io_update
    \/ sd_sync
    \/ bs_sheepdog_request_default
    \/ sd_close

Spec == Init /\ [][Next]_vars

\* the same session with one more operation and one fault less
InitSeq ==
    /\ InitAi
    /\ ops = MaxOps + 1
    /\ faults = MaxFaults - 1
    /\ cmds = {"SYNCHRONIZE_CACHE", "WRITE_10", "READ_10", "TEST_UNIT_READY"}
    /\ w = NoWire

SpecSeq == InitSeq /\ [][Next]_vars

\* the steps of a running sd_io: the thread that entered sd_io runs it on, and
\* every RPC it waits for completes
sd_io_step ==
    sd_io_write_piece \/ sd_io_read_piece \/ sd_io_reload \/ sd_io_update

\* an initiator that reads and writes
InitLive ==
    /\ InitAi
    /\ ops = MaxOps
    /\ faults = MaxFaults
    /\ cmds = {"WRITE_10", "READ_10"}
    /\ w = NoWire

NextLive == sd_open \/ sd_io_start \/ sd_io_step

\* the session of an open and sd_io calls in which a running sd_io is not left
\* halfway; the answers other than the nominal one, READONLY among them, are
\* finitely many
SpecLive == InitLive /\ [][NextLive]_vars /\ WF_vars(sd_io_step)

\* the session of Spec with one fault less and an initiator that issues every
\* opcode
InitScsi ==
    /\ InitAi
    /\ ops = MaxOps
    /\ faults = MaxFaults - 1
    /\ cmds = ScsiCmds
    /\ w = NoWire

SpecScsi == InitScsi /\ [][Next]_vars

(***************************************************************************)
(* do_req followed system call by system call.  A byte is named by the     *)
(* buffer it lies in and its offset there; the socket is the sequence of   *)
(* bytes the kernel accepted (out) and the destination is the sequence of  *)
(* bytes read() stored (got).                                              *)
(***************************************************************************)

\* sizeof(struct sheepdog_req) = sizeof(struct sheepdog_rsp)
SD_HDR_SIZE == 48

\* the payload lengths a response header announces
RspLens == {0, 1, WireLen, GarbageLen}

\* the callers of do_req with the data, wlen and rlen they pass; sd_sync
\* and sd_close pass no buffer and an rlen they never assigned
WireCalls ==
    {[caller |-> "write_object", data |-> "buf", wlen |-> WireLen, rlen |-> 0],
     [caller |-> "read_object", data |-> "buf", wlen |-> 0, rlen |-> WireLen],
     [caller |-> "find_vdi_name", data |-> "buf", wlen |-> WireLen,
      rlen |-> 0]}
    \cup {[caller |-> c, data |-> "null", wlen |-> 0, rlen |-> g] :
            c \in {"sd_sync", "sd_close"}, g \in {0, GarbageLen}}

\* send_req: the msghdr over the header and, when *wlen is not 0, the data
send_req(wlen) ==
    [iov |-> IF wlen # 0
             THEN <<[buf |-> "hdr", base |-> 0, len |-> SD_HDR_SIZE],
                    [buf |-> "data", base |-> 0, len |-> wlen]>>
             ELSE <<[buf |-> "hdr", base |-> 0, len |-> SD_HDR_SIZE]>>,
     cur |-> 1,
     iovlen |-> IF wlen # 0 THEN 2 ELSE 1,
     overrun |-> FALSE]

RECURSIVE forward_iov_skip(_, _)
\* the while loop of forward_iov; reading msg_iov past the array the caller
\* built has no defined outcome and is recorded in overrun
forward_iov_skip(msg, len) ==
    IF msg.cur > Len(msg.iov)
    THEN [msg |-> [msg EXCEPT !.overrun = TRUE], len |-> len]
    ELSE IF msg.iov[msg.cur].len <= len
         THEN forward_iov_skip([msg EXCEPT !.cur = @ + 1, !.iovlen = @ - 1],
                               len - msg.iov[msg.cur].len)
         ELSE [msg |-> msg, len |-> len]

forward_iov_keeps_base(msg, len) ==
    LET s == forward_iov_skip(msg, len)
    IN  IF s.msg.overrun
        THEN s.msg
        ELSE [s.msg EXCEPT !.iov[s.msg.cur].len = @ - s.len]

forward_iov(msg, len) ==
    LET s == forward_iov_skip(msg, len)
    IN  IF s.msg.overrun
        THEN s.msg
        ELSE [s.msg EXCEPT !.iov[s.msg.cur].base = @ + s.len,
                           !.iov[s.msg.cur].len = @ - s.len]

RECURSIVE MsgLen(_, _)
\* the bytes the msghdr describes from its k-th live buffer on
MsgLen(msg, k) ==
    IF k >= msg.cur + msg.iovlen \/ k > Len(msg.iov)
    THEN 0
    ELSE msg.iov[k].len + MsgLen(msg, k + 1)

RECURSIVE Gather(_, _, _)
\* the first n bytes sendmsg takes from the msghdr, from buffer k on
Gather(msg, k, n) ==
    IF n = 0 \/ k >= msg.cur + msg.iovlen \/ k > Len(msg.iov)
    THEN <<>>
    ELSE LET v == msg.iov[k]
             take == Min(v.len, n)
         IN  [i \in 1 .. take |-> <<v.buf, v.base + i - 1>>]
             \o Gather(msg, k + 1, n - take)

\* what one sendmsg or read may return
Errnos == {"EINTR", "EAGAIN", "EPIPE"}

Interrupted(e) == e \in {"EINTR", "EAGAIN"}

\* do_req entered: send_req has built the msghdr, do_write is at rewrite
WireStart(c, dl) ==
    [pc |-> "send", caller |-> c.caller, data |-> c.data, wlen |-> c.wlen,
     rlen |-> c.rlen, rsp_dl |-> dl, msg |-> send_req(c.wlen),
     len |-> SD_HDR_SIZE + c.wlen, out |-> <<>>,
     rd |-> [dest |-> "none", off |-> 0, len |-> 0], got |-> <<>>,
     pay |-> 0, intr |-> 0, short |-> FALSE, failed |-> "none", ret |-> 0]

WireInputs == {WireStart(c, dl) : c \in WireCalls, dl \in RspLens}

\* the msghdr of send_req is gone once send_req has returned
NoMsg == [iov |-> <<>>, cur |-> 1, iovlen |-> 0, overrun |-> FALSE]

\* do_req returns ret
WireDone(ret, why) == [w EXCEPT !.pc = "done", !.ret = ret, !.failed = why]

\* do_read entered for len bytes at dest
WireRead(x, at, dest, len) ==
    [x EXCEPT !.pc = at, !.rd = [dest |-> dest, off |-> 0, len |-> len],
              !.got = <<>>]

\* do_write: one pass from the label rewrite
do_write ==
    /\ w.pc = "send"
    /\ ~w.msg.overrun
    /\ \/ \E ret \in 1 .. MsgLen(w.msg, w.msg.cur) :
            LET sent == [w EXCEPT !.out = @ \o Gather(w.msg, w.msg.cur, ret),
                                  !.len = @ - ret,
                                  !.short = @ \/ ret < w.len]
            IN  w' = IF sent.len # 0
                     THEN [sent EXCEPT !.msg = forward_iov(w.msg, ret)]
                     ELSE WireRead([sent EXCEPT !.msg = NoMsg],
                                   "rhdr", "rsp", SD_HDR_SIZE)
       \/ \E e \in Errnos :
            IF Interrupted(e)
            THEN /\ w.intr < MaxIntr
                 /\ w' = [w EXCEPT !.intr = @ + 1]
            ELSE w' = WireDone(-1, "send")
    /\ UNCHANGED <<pc, fd, inode, min_dirty_data_idx, max_dirty_data_idx, l,
                   buf, log, op, srv_inode, ops, faults, hist, lock_fd, cmds>>

\* do_req after the response header arrived: the clamp of *rlen and the
\* payload read
do_req_payload(x) ==
    LET r == do_req(x.data, x.wlen, x.rlen,
                    Rsp("ok", SD_RES_SUCCESS, x.rsp_dl)).rlen
    IN  IF r # 0
        THEN WireRead([x EXCEPT !.pay = r], "rpay", x.data, r)
        ELSE [x EXCEPT !.pc = "done", !.ret = 0]

\* do_read: one pass from the label reread; read() into no buffer fails
\* with EFAULT
do_read ==
    /\ w.pc \in {"rhdr", "rpay"}
    /\ \/ /\ w.rd.dest # "null"
          /\ \E ret \in 1 .. w.rd.len :
               LET stored ==
                     [w EXCEPT !.got = @ \o [i \in 1 .. ret |->
                                               <<w.rd.dest, w.rd.off + i - 1>>],
                               !.rd.off = @ + ret,
                               !.rd.len = @ - ret,
                               !.short = @ \/ ret < w.rd.len]
               IN  w' = IF stored.rd.len # 0
                        THEN stored
                        ELSE IF w.pc = "rhdr"
                             THEN do_req_payload(stored)
                             ELSE [stored EXCEPT !.pc = "done", !.ret = 0]
       \/ /\ w.rd.dest # "null"
          /\ w' = WireDone(-1, "closed")
       \/ /\ w.rd.dest # "null"
          /\ \E e \in Errnos :
               IF Interrupted(e)
               THEN /\ w.intr < MaxIntr
                    /\ w' = [w EXCEPT !.intr = @ + 1]
               ELSE w' = WireDone(-1, "read")
       \/ /\ w.rd.dest = "null"
          /\ w' = WireDone(-1, "EFAULT")
    /\ UNCHANGED <<pc, fd, inode, min_dirty_data_idx, max_dirty_data_idx, l,
                   buf, log, op, srv_inode, ops, faults, hist, lock_fd, cmds>>

InitWire ==
    /\ InitAi
    /\ ops = 0
    /\ faults = 0
    /\ cmds = {}
    /\ w \in WireInputs

NextWire == do_write \/ do_read

SpecWire == InitWire /\ [][NextWire]_vars

(***************************************************************************)
(* What the claims speak of.                                               *)
(***************************************************************************)
\* sd_io has returned, and its log is that of the whole call
Done == pc = "idle" /\ op.name = "io"

FirstSlot == op.offset \div SD_DATA_OBJ_SIZE

LastSlot == ((op.offset + op.len + (SD_DATA_OBJ_SIZE - 1)) \div SD_DATA_OBJ_SIZE) - 1

Touched == FirstSlot .. LastSlot

Events(kind) == {i \in DOMAIN log : log[i].kind = kind}

\* the pieces of the call: those sent to the server and those zero-filled
Pieces == Events("data") \cup Events("zero")

\* the ranges of S cover [0, n)
Covered(S, n) ==
    \A b \in {0} \cup {r.hi : r \in S} :
        b < n => \E r \in S : r.lo <= b /\ b < r.hi

\* the call decided an allocation: a slot not owned by the inode when its
\* piece was decided
Allocated == \E i \in Events("data") : op.write /\ log[i].prior # log[i].vid

ParentOwned(e) == e.prior # 0 /\ e.prior # e.vid

\* the response a healthy server gives to the request of event e
NominalFor(e) == Nominal(e.hdr.rlen)

(***************************************************************************)
(* C1: a read whose slots are all unallocated issues no RPC and returns    *)
(* with every byte buf[0..len) zero, also when it spans several slots.     *)
(* The code zeroes buf[0..size) for every piece (line 683), so this is     *)
(* violated by a read of two unallocated slots.                            *)
(***************************************************************************)
C1_ReadOfUnallocatedIsZero ==
    (Done /\ ~op.write /\ \A s \in Touched : inode.data_vdi_id[s] = 0)
        => /\ Pieces = Events("zero")
           /\ DOMAIN log = Pieces
           /\ Covered(buf, op.len)

(***************************************************************************)
(* C2: every data write decided for a slot whose owner p is neither 0 nor  *)
(* the inode's vdi_id is a CREATE_AND_WRITE_OBJ with CMD_COW set,          *)
(* cow_oid = vid_to_data_oid(p, idx) and oid = vid_to_data_oid(vdi_id, idx)*)
(***************************************************************************)
C2_CowSource ==
    \A i \in Events("data") :
        (op.write /\ ParentOwned(log[i]))
            => /\ log[i].hdr.opcode = SD_OP_CREATE_AND_WRITE_OBJ
               /\ HasFlag(log[i].hdr.flags, SD_FLAG_CMD_COW)
               /\ log[i].hdr.cow_oid = vid_to_data_oid(log[i].prior, log[i].idx)
               /\ log[i].hdr.oid = vid_to_data_oid(log[i].vid, log[i].idx)

C2_Witness ==
    \E i \in Events("data") : op.write /\ ParentOwned(log[i]) /\ log[i].prior = 2

(***************************************************************************)
(* C3: the inode writeback.                                                *)
(***************************************************************************)
\* event i is the writeback of the cached inode, and the last request
IsWriteback(i) ==
    /\ log[i].hdr.opcode = SD_OP_WRITE_OBJ
    /\ log[i].hdr.data_length = SD_INODE_SIZE
    /\ log[i].hdr.wlen = SD_INODE_SIZE
    /\ log[i].hdr.offset = 0
    /\ log[i].hdr.oid = vid_to_vdi_oid(inode.vdi_id)
    /\ log[i].sock = "session"
    /\ i = Len(log)

\* C3 as stated: a call that decided an allocation emits exactly one inode
\* WRITE_OBJ of SD_INODE_SIZE bytes at offset 0, after its data writes; a call
\* that decided none emits no inode write.  Violated by a call whose
\* allocating write fails: it returns without the writeback.
C3_Original ==
    Done => IF Allocated
            THEN /\ Cardinality(Events("inode_write")) = 1
                 /\ \A i \in Events("inode_write") : IsWriteback(i)
            ELSE Events("inode_write") = {}

\* C3 as amended: a call that decided an allocation and whose pieces all
\* completed emits exactly one inode WRITE_OBJ of SD_INODE_SIZE bytes at
\* offset 0 to vid_to_vdi_oid(inode.vdi_id), after its data writes; a call that
\* decided no allocation, or that returned at a failed piece or a failed
\* reload, emits none; and none is emitted before the pieces are through.
C3_InodeWriteback ==
    /\ Done => IF Allocated /\ op.at = "end"
               THEN /\ Cardinality(Events("inode_write")) = 1
                    /\ \A i \in Events("inode_write") : IsWriteback(i)
               ELSE Events("inode_write") = {}
    /\ (op.name = "io" /\ pc # "idle") => Events("inode_write") = {}

C3_Witness ==
    /\ Done /\ Allocated /\ op.at = "end"
    /\ Cardinality(Events("data")) >= 2
    /\ Cardinality(Events("inode_write")) = 1

(***************************************************************************)
(* C4: the server answers the first WRITE_OBJ of an io(write) with         *)
(* READONLY and everything after it with SUCCESS.  Then the next requests  *)
(* are LOCK_VDI on a connection of its own and a READ_OBJ of SD_INODE_SIZE *)
(* bytes of the inode object of the vid LOCK_VDI returned, which replaces   *)
(* the cached inode; the write of the same piece is issued again with      *)
(* opcode, oid, cow_oid and CMD_COW decided from the reloaded inode; and   *)
(* sd_io returns 0.                                                        *)
(***************************************************************************)
\* the script of C4, as far as the log goes
StaleScript ==
    /\ op.name = "io" /\ op.write
    /\ Len(log) >= 1
    /\ log[1].kind = "data"
    /\ log[1].hdr.opcode = SD_OP_WRITE_OBJ
    /\ log[1].rsp = Rsp("ok", SD_RES_READONLY, 0)
    /\ \A i \in DOMAIN log : i > 1 => log[i].rsp = NominalFor(log[i])
    \* the connection of LOCK_VDI was made
    /\ ~(Done /\ op.at = "reload" /\ Len(log) = 1)

\* the request of event e is the one the write path decides from inode ino
DecidedFrom(e, ino) ==
    LET cur == ino.data_vdi_id[e.idx]
        own == cur = ino.vdi_id
        cow == cur # 0 /\ ~own
    IN  /\ e.vid = ino.vdi_id
        /\ e.prior = cur
        /\ e.hdr.opcode = IF own THEN SD_OP_WRITE_OBJ ELSE SD_OP_CREATE_AND_WRITE_OBJ
        /\ e.hdr.oid = vid_to_data_oid(ino.vdi_id, e.idx)
        /\ e.hdr.cow_oid = IF cow THEN vid_to_data_oid(cur, e.idx) ELSE Oid0
        /\ HasFlag(e.hdr.flags, SD_FLAG_CMD_COW) <=> cow
        /\ HasFlag(e.hdr.flags, SD_FLAG_CMD_WRITE)

C4_StaleReloadRetry ==
    StaleScript =>
        /\ Len(log) >= 2 =>
              /\ log[2].kind = "lock" /\ log[2].sock = "lock"
              /\ log[2].hdr.opcode = SD_OP_LOCK_VDI
        /\ Len(log) >= 3 =>
              /\ log[3].kind = "inode_read" /\ log[3].sock = "session"
              /\ log[3].hdr.opcode = SD_OP_READ_OBJ
              /\ log[3].hdr.data_length = SD_INODE_SIZE
              /\ log[3].hdr.offset = 0
              /\ log[3].hdr.oid = vid_to_vdi_oid(log[2].vid)
              /\ log[3].img.vdi_id = log[2].vid
        /\ (Len(log) = 3 /\ pc = "retry") => (inode = srv_inode /\ inode = log[3].img)
        /\ Len(log) >= 4 =>
              /\ log[4].kind = "data" /\ log[4].sock = "session"
              /\ log[4].idx = log[1].idx
              /\ log[4].bufoff = log[1].bufoff
              /\ log[4].hdr.offset = log[1].hdr.offset
              /\ log[4].hdr.data_length = log[1].hdr.data_length
              /\ DecidedFrom(log[4], log[3].img)
        /\ Done => op.ret = 0 /\ Len(log) >= 4

C4_Witness ==
    /\ StaleScript /\ Done /\ op.ret = 0
    /\ Len(log) >= 4
    /\ log[4].hdr.opcode = SD_OP_CREATE_AND_WRITE_OBJ
    /\ log[3].img.vdi_id # log[1].vid

(***************************************************************************)
(* C5: a CREATE_AND_WRITE_OBJ for a parent-owned slot is answered READONLY *)
(* and the reloaded inode owns the slot.  The retried request is then a    *)
(* WRITE_OBJ to vid_to_data_oid(new vdi_id, idx) with cow_oid = 0 and no   *)
(* CMD_COW, sd_io returns 0 and no inode writeback is emitted.  The code   *)
(* keeps create and flags of the pass before the reload (lines 627-629,    *)
(* 643-650 leave them alone when the slot is owned), so the retry is a     *)
(* CREATE_AND_WRITE_OBJ with CMD_COW and a writeback follows.              *)
(***************************************************************************)
C5_RetryDependsOnReloadedInodeOnly ==
    \A j \in Events("data") :
        ( /\ op.write
          /\ log[j].hdr.opcode = SD_OP_CREATE_AND_WRITE_OBJ
          /\ ParentOwned(log[j])
          /\ log[j].rsp = Rsp("ok", SD_RES_READONLY, 0)
          /\ Len(log) >= j + 3
          /\ \A i \in DOMAIN log : i # j => log[i].rsp = NominalFor(log[i])
          /\ log[j + 2].kind = "inode_read"
          /\ log[j + 2].img.data_vdi_id[log[j].idx] = log[j + 2].img.vdi_id )
        => /\ log[j + 3].hdr.opcode = SD_OP_WRITE_OBJ
           /\ log[j + 3].hdr.oid = vid_to_data_oid(log[j + 2].img.vdi_id, log[j].idx)
           /\ log[j + 3].hdr.cow_oid = Oid0
           /\ ~HasFlag(log[j + 3].hdr.flags, SD_FLAG_CMD_COW)
           /\ Events("inode_write") = {}
           /\ Done => op.ret = 0

(***************************************************************************)
(* C6: write allocation idempotence, checked over sessions of an open and  *)
(* two io calls (SpecSeq).  hist.ever0 holds the slots allocated by an     *)
(* earlier write that returned 0 without a reload; hist.fresh0 those among *)
(* them allocated since the inode was last reloaded.                       *)
(***************************************************************************)
\* the call writes to slot s and to no other
WritesOnly(s) == op.name = "io" /\ op.write /\ FirstSlot = s /\ LastSlot = s

NoReload == Events("lock") = {}

\* after a write that allocated and returned 0 without a reload, the inode
\* owns every slot the call allocated
AllocatedIsOwned ==
    (Done /\ op.write /\ op.ret = 0 /\ NoReload)
        => \A i \in Events("data") :
              log[i].prior # log[i].vid
                  => /\ inode.data_vdi_id[log[i].idx] = inode.vdi_id
                     /\ log[i].idx \in hist.ever

\* the call emits WRITE_OBJ with cow_oid = 0 and no inode writeback and
\* leaves the dirty window as it found it
PlainWrite ==
    /\ \A i \in Events("data") :
          /\ log[i].hdr.opcode = SD_OP_WRITE_OBJ
          /\ log[i].hdr.cow_oid = Oid0
    /\ Events("inode_write") = {}
    /\ min_dirty_data_idx = hist.min0
    /\ max_dirty_data_idx = hist.max0

\* C6 as stated: after an allocating write of slot idx returned 0 without a
\* reload the inode owns the slot, and any later write to that slot alone is
\* a plain WRITE_OBJ.  Violated when the later write is answered READONLY and
\* the reloaded inode does not own the slot.
C6_Original ==
    /\ AllocatedIsOwned
    /\ (\E s \in hist.ever0 : WritesOnly(s)) => PlainWrite

\* C6 as amended: ... any later write to that slot alone, issued while the
\* cached inode has not been reloaded since the allocation and itself not
\* answered READONLY, is a plain WRITE_OBJ with cow_oid = 0, emits no inode
\* writeback and leaves the dirty window unchanged.
C6_AllocationIdempotent ==
    /\ AllocatedIsOwned
    /\ ((\E s \in hist.fresh0 : WritesOnly(s)) /\ NoReload) => PlainWrite

C6_Witness ==
    /\ Done /\ op.ret = 0 /\ NoReload
    /\ \E s \in hist.fresh0 : WritesOnly(s)
    /\ Events("data") # {}

(***************************************************************************)
(* C7: within one operation, every response on the session socket is read  *)
(* to its last byte before the next request is written to that socket.     *)
(* reload_inode ignores the outcome of its read of the inode (lines        *)
(* 496-498), so after that read broke off in the header or in the payload  *)
(* sd_io writes the retried request to the same socket.                    *)
(***************************************************************************)
C7_SerialOrdering ==
    \A i, j \in DOMAIN log :
        ( /\ i < j
          /\ log[i].sock = "session" /\ log[j].sock = "session"
          /\ log[i].rsp.t # "send" )
        => log[i].consumed

(***************************************************************************)
(* C8: the pieces of an io call.                                           *)
(***************************************************************************)
\* where the piece of slot s starts in the caller's buffer: the sum of the
\* sizes of the pieces before it
BufStart(s) == IF s = FirstSlot THEN 0 ELSE s * SD_DATA_OBJ_SIZE - op.offset

ObjOff(s) == IF s = FirstSlot THEN op.offset % SD_DATA_OBJ_SIZE ELSE 0

PieceSize(s) == Min(SD_DATA_OBJ_SIZE - ObjOff(s), op.len - BufStart(s))

\* the pieces among the events I, in the order and with the geometry C8 names
PiecesInOrder(I) ==
    /\ \A i \in I :
          /\ log[i].idx \in Touched
          /\ log[i].obj_offset = ObjOff(log[i].idx)
          /\ log[i].size = PieceSize(log[i].idx)
          /\ log[i].bufoff = BufStart(log[i].idx)
    /\ \A i, j \in I :
          i < j => \/ log[i].idx < log[j].idx
                   \/ /\ log[i].idx = log[j].idx
                      /\ \E k \in Events("lock") : i < k /\ k < j
    /\ (I # {} /\ Pieces # {}) =>
          \A i \in Pieces : (\A j \in Pieces : i <= j) => log[i].idx = FirstSlot
    /\ (Done /\ op.at = "end") => {log[i].idx : i \in Pieces} = Touched

\* C8: pieces go out in ascending slot order from offset/OS; the piece of a
\* slot has in-object offset (offset mod OS) for the first and 0 otherwise,
\* size min(OS - obj_off, remaining) and the buffer range that starts at the
\* sum of the sizes of the earlier pieces; a slot shows twice only across a
\* reload; a call that ran to its end has a piece for every slot.  The read
\* of an unallocated slot zeroes buf[0..size) whatever came before (line
\* 683), which breaks the buffer range.
C8_PiecesPartition == op.name = "io" => PiecesInOrder(Pieces)

(***************************************************************************)
(* C9: io(write, len = 3*OS, offset = OS - 1024).                          *)
(***************************************************************************)
\* the (in-object offset, size) pairs the claim names for slots 0..3
StatedGeometry ==
    <<[off |-> SD_DATA_OBJ_SIZE - 1024, size |-> 1024],
      [off |-> 0, size |-> SD_DATA_OBJ_SIZE],
      [off |-> 0, size |-> SD_DATA_OBJ_SIZE],
      [off |-> 0, size |-> 1024]>>

\* the pairs whose sizes sum to 3*OS
StraddleGeometry ==
    <<[off |-> SD_DATA_OBJ_SIZE - 1024, size |-> 1024],
      [off |-> 0, size |-> SD_DATA_OBJ_SIZE],
      [off |-> 0, size |-> SD_DATA_OBJ_SIZE],
      [off |-> 0, size |-> SD_DATA_OBJ_SIZE - 1024]>>

StraddleCall ==
    /\ op.name = "io" /\ op.write
    /\ op.len = 3 * SD_DATA_OBJ_SIZE
    /\ op.offset = SD_DATA_OBJ_SIZE - 1024

AllNominal == \A i \in DOMAIN log : log[i].rsp = NominalFor(log[i])

\* the data events of the log, in order
RECURSIVE DataOf(_)
DataOf(evs) ==
    IF evs = <<>> THEN <<>>
    ELSE IF Head(evs).kind = "data" THEN <<Head(evs)>> \o DataOf(Tail(evs))
    ELSE DataOf(Tail(evs))

\* the data RPC of slot s carries the pair geo[s + 1], and with a server that
\* answers SUCCESS throughout the call issues exactly the data RPCs of slots
\* 0, 1, 2, 3, in that order
FourPieces(geo) ==
    StraddleCall =>
        /\ \A i \in Events("data") :
              /\ log[i].idx \in 0 .. 3
              /\ log[i].hdr.offset = geo[log[i].idx + 1].off
              /\ log[i].hdr.data_length = geo[log[i].idx + 1].size
              /\ log[i].hdr.oid.lo = log[i].idx
        /\ AllNominal =>
              LET d == DataOf(log)
              IN  /\ Len(d) <= 4
                  /\ \A k \in DOMAIN d : d[k].idx = k - 1
                  /\ Done => Len(d) = 4 /\ op.ret = 0

\* C9 as stated: the call covers slots 0..3 and emits exactly four data RPCs,
\* in that order, with (in-object offset, size) (OS-1024, 1024), (0, OS),
\* (0, OS), (0, 1024).  Violated: the stated sizes sum to 2*OS + 2048, and the
\* fourth piece carries the OS - 1024 bytes that remain.
C9_Original == FourPieces(StatedGeometry)

\* C9 as amended: the call covers slots 0..3 and emits exactly four data
\* RPCs, in that order, with (in-object offset, size) (OS-1024, 1024),
\* (0, OS), (0, OS), (0, OS-1024).
C9_StraddleFourPieces == FourPieces(StraddleGeometry)

C9_Witness ==
    /\ StraddleCall /\ AllNominal /\ Done
    /\ Len(DataOf(log)) = 4
    /\ DataOf(log)[4].hdr.data_length = SD_DATA_OBJ_SIZE - 1024

(***************************************************************************)
(* C10: sd_sync emits one FLUSH_VDI with oid = vid_to_vdi_oid(vdi_id) and  *)
(* no payload, returns 0 exactly when the transport held and the result is *)
(* SUCCESS or INVALID_PARMS, and changes neither the cached inode nor the  *)
(* dirty window.  Checked over sessions in which an io call can come       *)
(* before the sync (SpecSeq), so that there is a dirty window to keep.     *)
(***************************************************************************)
SyncReturned == pc = "idle" /\ op.name = "sync"

SyncRequest ==
    SyncReturned =>
        /\ Len(log) = 1
        /\ log[1].sock = "session"
        /\ log[1].hdr.opcode = SD_OP_FLUSH_VDI
        /\ log[1].hdr.oid = vid_to_vdi_oid(inode.vdi_id)
        /\ log[1].hdr.data_length = 0
        /\ log[1].hdr.wlen = 0
        /\ ~HasFlag(log[1].hdr.flags, SD_FLAG_CMD_WRITE)
        /\ op.ret \in {0, -1}
        /\ op.ret = 0 <=> /\ log[1].rsp.t = "ok"
                          /\ log[1].rsp.result \in {SD_RES_SUCCESS,
                                                    SD_RES_INVALID_PARMS}

\* a step that is a call of sd_sync
SyncStep == pc = "idle" /\ ops' = ops - 1 /\ op'.name = "sync"

CmdReturned == pc = "idle" /\ op.name \in {"io", "sync", "default"}

C11_ScsiDispatch ==
    /\ op.name = "sync" <=> op.scb0 \in SyncCmds
    /\ (op.name = "io" /\ op.write) <=> op.scb0 \in WriteCmds
    /\ (op.name = "io" /\ ~op.write) <=> op.scb0 \in ReadCmds
    /\ op.name = "default" <=> op.scb0 \in OtherCmds
    /\ op.name = "default" => log = <<>> /\ op.ret = 0
    /\ (op.name = "sync" /\ pc = "idle") => Events("flush") = DOMAIN log
    /\ CmdReturned =>
          /\ op.ret \in {0, -1}
          /\ op.ret # 0 => op.status = [result |-> "SAM_STAT_CHECK_CONDITION",
                                        key |-> "MEDIUM_ERROR",
                                        asc |-> "ASC_READ_ERROR",
                                        sense |-> TRUE]
          /\ op.ret = 0 => /\ op.status.result = "SAM_STAT_GOOD"
                           /\ ~op.status.sense

C11_Witness ==
    /\ CmdReturned /\ op.scb0 = "WRITE_16" /\ op.ret = -1
    /\ op.status.result = "SAM_STAT_CHECK_CONDITION"
    /\ log # <<>>

(***************************************************************************)
(* C12: when sd_open returns failure, every socket the call opened - the   *)
(* connection of LOCK_VDI and the session connection - has been closed.    *)
(* find_vdi_name closes its socket on every path (line 753), but sd_open   *)
(* leaves through `out` without close(fd) when the read of the inode fails *)
(* (lines 780-788), and the session socket stays open.                     *)
(***************************************************************************)
OpenFailed == pc = "closed" /\ op.name = "open" /\ op.ret = -1

C12_FailedOpenClosesSockets ==
    OpenFailed => fd # "open" /\ lock_fd # "open"

(***************************************************************************)
(* C13: sd_close sends one RELEASE_VDI with vdi_id = inode.vdi_id, without *)
(* CMD_WRITE and without payload, on the session socket, and then closes   *)
(* the session socket whatever the result code and whether or not the      *)
(* transport held.                                                         *)
(***************************************************************************)
C13_CloseReleasesAndCloses ==
    op.name = "close" =>
        /\ pc = "exit"
        /\ Len(log) = 1
        /\ log[1].kind = "release" /\ log[1].sock = "session"
        /\ log[1].hdr.opcode = SD_OP_RELEASE_VDI
        /\ log[1].hdr.vdi_id = inode.vdi_id
        /\ ~HasFlag(log[1].hdr.flags, SD_FLAG_CMD_WRITE)
        /\ log[1].hdr.data_length = 0
        /\ log[1].hdr.wlen = 0
        /\ fd = "closed"

C13_Witness ==
    /\ op.name = "close" /\ fd = "closed"
    /\ log[1].rsp.t = "ok" /\ log[1].rsp.result = SD_RES_EIO
    /\ inode.vdi_id = 2

(***************************************************************************)
(* C14: when, in a stale reload, LOCK_VDI fails or the read of the inode   *)
(* fails (in the transport or with a result other than SUCCESS), sd_io      *)
(* returns failure and does not issue the piece again.  reload_inode       *)
(* returns -1 when find_vdi_name fails, but drops what read_object returns *)
(* (lines 496-498): after a failed read of the inode sd_io retries.        *)
(***************************************************************************)
RpcFailed(e) == e.rsp.t # "ok" \/ e.rsp.result # SD_RES_SUCCESS

C14_ReloadFailureFailsWrite ==
    \A k \in Events("lock") \cup Events("inode_read") :
        (op.name = "io" /\ RpcFailed(log[k]))
            => /\ \A j \in DOMAIN log : j > k => log[j].kind = "inode_read"
               /\ Done => op.ret = -1

(***************************************************************************)
(* C15: sd_io returns 0 only if the last RPC of every piece and the inode  *)
(* writeback, when there is one, were answered SUCCESS; a READ_OBJ or an   *)
(* inode WRITE_OBJ answered with another code, READONLY included, makes it *)
(* return failure.  read_object and update_inode pass no need_reload, and  *)
(* read_write_object returns 0 for READONLY all the same (lines 544-547):  *)
(* a read or a writeback answered READONLY counts as done.                 *)
(***************************************************************************)
\* event i is the last RPC of its piece, or the inode writeback
LastOfPiece(i) ==
    \/ log[i].kind = "inode_write"
    \/ /\ log[i].kind = "data"
       /\ \A j \in Events("data") : j > i => log[j].idx # log[i].idx

C15_SuccessMeansAllSucceeded ==
    (Done /\ op.ret = 0)
        => \A i \in DOMAIN log :
              LastOfPiece(i) => /\ log[i].rsp.t = "ok"
                                /\ log[i].rsp.result = SD_RES_SUCCESS

(***************************************************************************)
(* C16: a data write carries CMD_COW exactly when its slot was owned by    *)
(* another volume when the piece was decided, that is exactly when         *)
(* cow_oid # 0; a piece for a slot owned by the inode or unallocated       *)
(* carries CMD_WRITE alone, whatever the pieces before it were.  flags is  *)
(* set at the declaration (line 629) and by a COW piece (line 649) and     *)
(* never cleared, so the pieces after a COW piece carry CMD_COW too.       *)
(***************************************************************************)
C16_CowFlagPerPiece ==
    \A i \in Events("data") :
        op.write =>
            /\ HasFlag(log[i].hdr.flags, SD_FLAG_CMD_WRITE)
            /\ HasFlag(log[i].hdr.flags, SD_FLAG_CMD_COW) <=> ParentOwned(log[i])
            /\ HasFlag(log[i].hdr.flags, SD_FLAG_CMD_COW) <=> log[i].hdr.cow_oid # Oid0

(***************************************************************************)
(* C17: the dirty window is (UINT32_MAX, 0) when sd_open has returned 0    *)
(* and from then on only widens: no step of sd_io, sd_sync, the inode      *)
(* writeback or a stale reload raises min_dirty_data_idx or lowers         *)
(* max_dirty_data_idx, and every slot for which an allocation was decided  *)
(* lies inside it.  Checked over sessions of an open and two commands      *)
(* (SpecSeq); a slot decided in an earlier command stays inside because    *)
(* the window only widens.                                                 *)
(***************************************************************************)
WindowAtOpen ==
    (pc = "idle" /\ op.name = "open")
        => min_dirty_data_idx = UINT32_MAX /\ max_dirty_data_idx = 0

DecidedInsideWindow ==
    \A i \in Events("data") :
        (op.write /\ log[i].prior # log[i].vid)
            => /\ min_dirty_data_idx <= log[i].idx
               /\ log[i].idx <= max_dirty_data_idx

\* a step taken once the volume is open
SessionStep == pc # "closed"

C17_DirtyWindowWidens ==
    /\ [](WindowAtOpen /\ DecidedInsideWindow)
    /\ [][SessionStep => /\ min_dirty_data_idx' <= min_dirty_data_idx
                         /\ max_dirty_data_idx' >= max_dirty_data_idx]_vars

\* the window holds slots of an earlier command, after a writeback and a
\* reload in this one
C17_Witness ==
    /\ Done /\ op.write
    /\ Events("inode_write") # {} /\ Events("lock") # {}
    /\ \E s \in hist.ever0 : \A i \in Events("data") : s < log[i].idx /\ min_dirty_data_idx <= s
    /\ min_dirty_data_idx < max_dirty_data_idx

(***************************************************************************)
(* C18: once do_req has sent the request and read one full response header *)
(* it reads exactly min(rlen, data_length) payload bytes, for every        *)
(* caller; sd_sync and sd_close pass no receive buffer, so for them no     *)
(* payload read is attempted.                                              *)
(***************************************************************************)
HeaderRead ==
    /\ w.pc \in {"rpay", "done"}
    /\ \/ w.rd.dest = "rsp" /\ w.rd.len = 0
       \/ w.pay > 0

PayloadStored == Len(SelectSeq(w.got, LAMBDA b : b[1] # "rsp"))

C18_PayloadRead ==
    (w.pc # "none" /\ HeaderRead) =>
        /\ Len(w.out) = SD_HDR_SIZE + w.wlen
        /\ w.pay = Min(w.rlen, w.rsp_dl)
        /\ w.data = "null" => w.pay = 0
        /\ (w.pc = "done" /\ w.ret = 0) => PayloadStored = w.pay

(***************************************************************************)
(* C19: do_write with forward_iov hands the socket exactly the N bytes of  *)
(* the header followed by the payload, in order, none repeated or skipped, *)
(* whatever short counts sendmsg returns and however often it fails with   *)
(* EINTR or EAGAIN; the iovec cursor never passes the last buffer; any     *)
(* other errno fails the call.                                             *)
(***************************************************************************)
Message ==
    [i \in 1 .. (SD_HDR_SIZE + w.wlen) |->
        IF i <= SD_HDR_SIZE
        THEN <<"hdr", i - 1>>
        ELSE <<"data", i - SD_HDR_SIZE - 1>>]

IsPrefix(a, b) == Len(a) <= Len(b) /\ \A i \in 1 .. Len(a) : a[i] = b[i]

RequestSent == w.pc \in {"rhdr", "rpay"} \/ (w.pc = "done" /\ w.failed # "send")

C19_WriteAll ==
    w.pc # "none" =>
        /\ IsPrefix(w.out, Message)
        /\ ~w.msg.overrun
        /\ w.pc = "send" => /\ w.msg.cur <= Len(w.msg.iov)
                            /\ Len(w.out) + w.len = SD_HDR_SIZE + w.wlen
                            /\ MsgLen(w.msg, w.msg.cur) = w.len
        /\ RequestSent => w.out = Message
        /\ (w.pc = "done" /\ w.failed = "send") =>
               w.ret = -1 /\ Len(w.out) < Len(Message)

C19_Witness ==
    /\ w.pc = "rhdr"
    /\ w.rd.len = SD_HDR_SIZE
    /\ w.wlen > 0
    /\ w.short
    /\ w.intr >= 1
    /\ w.out = Message

(***************************************************************************)
(* C20: do_read returns failure when read returns 0 before the N bytes     *)
(* arrived or fails with an errno other than EINTR and EAGAIN, and that    *)
(* failure fails the enclosing RPC and the operation: the operation        *)
(* returns failure, does not reconnect, and sends no further request on    *)
(* that socket.  reload_inode drops the return value of read_object        *)
(* (lines 496-498), so a do_read failure in the reload's read of the inode *)
(* is followed by the retried piece on the same socket.                    *)
(***************************************************************************)
ReadFailed(e) == e.rsp.t \in {"hdr", "pay"}

C20_ReadFailureFailsOperation ==
    \A k \in DOMAIN log :
        (op.name \in {"open", "io", "sync"} /\ ReadFailed(log[k]))
            => /\ \A j \in DOMAIN log :
                    j > k => log[j].sock # log[k].sock /\ log[j].kind # "lock"
               /\ Done => op.ret = -1

(***************************************************************************)
(* C21: when a write returns failure because the CREATE_AND_WRITE_OBJ of   *)
(* a slot whose allocation it had just decided failed (in the transport or *)
(* with a result other than SUCCESS and READONLY), the cached inode        *)
(* records the slot as it was before: data_vdi_id[idx] is not left equal   *)
(* to vdi_id.  sd_io stores vid in data_vdi_id[idx] before it calls        *)
(* write_object (line 661) and returns -1 at lines 692-695 without         *)
(* restoring the slot.                                                     *)
(***************************************************************************)
\* sd_io returned -1 from the write of a piece whose allocation it decided
CreateFailed ==
    /\ Done /\ op.write /\ op.ret = -1 /\ op.at = "piece"
    /\ log[Len(log)].kind = "data"
    /\ log[Len(log)].hdr.opcode = SD_OP_CREATE_AND_WRITE_OBJ
    /\ log[Len(log)].prior # log[Len(log)].vid

C21_StateUnchangedOnError ==
    CreateFailed =>
        /\ inode.data_vdi_id[log[Len(log)].idx] = log[Len(log)].prior
        /\ inode.data_vdi_id[log[Len(log)].idx] # inode.vdi_id

(***************************************************************************)
(* C22: after a write that returned 0, every slot the call touched is      *)
(* owned (data_vdi_id[idx] = vdi_id) in the cached inode and in the inode  *)
(* image the server holds, also when a later piece of the call was         *)
(* answered READONLY and the inode was reloaded.  The statement is taken   *)
(* for the calls whose reloads and writeback a healthy server answered.    *)
(* reload_inode reads the server's image over the cached inode (lines      *)
(* 496-497): the slots the earlier pieces marked at line 661 were never    *)
(* written back and come back as the server has them.                      *)
(***************************************************************************)
\* the write returned 0 on a session whose open read an inode, and every
\* reload and writeback RPC of the call got the answer of a healthy server
CleanWrite ==
    /\ Done /\ op.write /\ op.ret = 0
    /\ \A i \in Events("data") : log[i].vid # 0
    /\ \A i \in DOMAIN log :
          log[i].kind \in {"lock", "inode_read", "inode_write"}
              => log[i].rsp = NominalFor(log[i])

C22_TouchedSlotsOwned ==
    CleanWrite =>
        \A s \in Touched :
            /\ inode.data_vdi_id[s] = inode.vdi_id
            /\ srv_inode.data_vdi_id[s] = inode.vdi_id

(***************************************************************************)
(* C23: every sd_io call eventually returns when every RPC and every       *)
(* reload completes and the server answers READONLY to finitely many       *)
(* writes; the loop of reload and retry has no bound of its own: after a   *)
(* write answered READONLY whose reload found the volume, the same piece   *)
(* is written again, however often that happened before, and sd_io gives   *)
(* up after a READONLY answer only when the reload fails.                  *)
(***************************************************************************)
InIo == pc \in {"retry", "reload", "update"}

Readonly(e) == e.rsp.t = "ok" /\ e.rsp.result = SD_RES_READONLY

\* the data events of slot s
WritesOf(s) == {i \in Events("data") : log[i].idx = s}

RetryAfterEveryReadonly ==
    \A i \in Events("data") :
        (op.name = "io" /\ op.write /\ Readonly(log[i])) =>
            /\ Len(log) >= i + 1 => log[i + 1].kind = "lock"
            /\ (Len(log) >= i + 2 /\ ~RpcFailed(log[i + 1])) =>
                   log[i + 2].kind = "inode_read"
            /\ Len(log) >= i + 3 =>
                   /\ log[i + 3].kind = "data"
                   /\ log[i + 3].idx = log[i].idx
                   /\ log[i + 3].bufoff = log[i].bufoff
            /\ Done => \/ Len(log) >= i + 3
                       \/ op.at = "reload" /\ op.ret = -1

C23_Termination ==
    /\ []RetryAfterEveryReadonly
    /\ InIo ~> (pc = "idle")

C23_Witness ==
    /\ Done /\ op.write /\ op.ret = 0
    /\ \E s \in Touched :
          /\ Cardinality({i \in WritesOf(s) : Readonly(log[i])}) = MaxFaults
          /\ Cardinality(WritesOf(s)) = MaxFaults + 1

=============================================================================
